---- MODULE Spec2Model ----
(***************************************************************************)
(* rustygit: per-author statistics (analyze_repo) and the changelog        *)
(* between two tags (generate_changelog, format_changelog).                *)
(*                                                                         *)
(* The repository is the commit graph, the data of each commit and the two *)
(* tag references; it never changes during a run.  A commit id is a number *)
(* of 1..NumCommits and the parents of a commit have smaller ids, so the    *)
(* graph is a finite DAG.  A message is a sequence of characters, a tree is *)
(* the set of lines of the snapshot, an Option is <<>> or <<x>>.           *)
(***************************************************************************)
EXTENDS Integers, Sequences, FiniteSets, TLC

NumCommits == 3
MaxLen == 3

VARIABLES
    parents,              \* repository: oid -> ordered sequence of parent oids
    author,               \* repository: oid -> Option of the author's name
    tree,                 \* repository: oid -> the tree of the commit
    message,              \* repository: oid -> the commit message
    head,                 \* repository: the commit HEAD points at
    from_ref, to_ref,     \* repository: what refs/tags/<from_tag>, <to_tag> name
    variant,              \* which copy of format_changelog is built
    output,               \* the --output argument, an Option
    pc,                   \* position of the running command
    pending, seen, hidden,\* the revwalk: queue, ids already queued, hidden ids
    walked,               \* the ids the revwalk iterator has yielded, in order
    cur,                  \* locals of the last iteration of analyze_repo's loop
    author_stats,         \* analyze_repo: the map author -> AuthorStats
    total_contributions,  \* analyze_repo: the total computed for the report
    table,                \* analyze_repo: the rows added to the table
    from_commit_id, to_commit_id, \* generate_changelog: the resolved tags
    commits,              \* generate_changelog: the Vec of CommitInfo
    diffstat,             \* generate_changelog: files_changed, insertions, deletions
    buckets,              \* format_changelog: its features, fixes and others
    changelog,            \* the value format_changelog returned, an Option
    stdout,               \* what was printed
    file                  \* what was written to the output file, an Option

repoVars == <<parents, author, tree, message, head, from_ref, to_ref, variant, output>>
walkVars == <<pending, seen, hidden, walked>>
analyzeVars == <<cur, author_stats, total_contributions, table>>
changelogVars ==
    <<from_commit_id, to_commit_id, commits, diffstat, buckets, changelog, stdout, file>>
vars == <<repoVars, pc, walkVars, analyzeVars, changelogVars>>

None == <<>>
Some(x) == <<x>>

Oids == 1..NumCommits

RECURSIVE SumOver(_, _)
SumOver(S, f) ==
    IF S = {} THEN 0
    ELSE LET x == CHOOSE y \in S : TRUE IN f[x] + SumOver(S \ {x}, f)

Range(s) == {s[i] : i \in 1..Len(s)}

(***************************************************************************)
(* Messages, as the characters starts_with compares.                       *)
(***************************************************************************)
MsgFeatInit == <<"f","e","a","t",":"," ","i","n","i","t">>
MsgFeatureX == <<"f","e","a","t","u","r","e",":"," ","x">>
MsgFixY == <<"f","i","x",":"," ","y","\n","b","o","d","y">>
MsgChoreZ == <<"c","h","o","r","e",":"," ","z">>
MsgMergedPR == <<"M","e","r","g","e","d"," ","P","R"," ","7">>
MsgTask == <<"t","a","s","k"," ","4">>
MsgBug == <<"b","u","g",":"," ","n","p","e">>
MsgUpperFix == <<"F","i","x",":"," ","y">>
MsgShort == <<"f","e">>
MsgEmpty == <<>>

Messages ==
    {MsgFeatInit, MsgFeatureX, MsgFixY, MsgChoreZ, MsgMergedPR, MsgTask, MsgBug,
     MsgUpperFix, MsgShort, MsgEmpty}

PrefixFeat == <<"f","e","a","t">>
PrefixFeature == <<"f","e","a","t","u","r","e">>
PrefixMergedPR == <<"M","e","r","g","e","d"," ","P","R">>
PrefixTask == <<"t","a","s","k">>
PrefixFix == <<"f","i","x">>
PrefixBug == <<"b","u","g">>

starts_with(msg, prefix) ==
    /\ Len(prefix) <= Len(msg)
    /\ SubSeq(msg, 1, Len(prefix)) = prefix

\* message.lines().next().unwrap_or(""): the text before the first line break
RECURSIVE first_line(_)
first_line(msg) ==
    IF msg = <<>> \/ Head(msg) = "\n" THEN <<>>
    ELSE <<Head(msg)>> \o first_line(Tail(msg))

(***************************************************************************)
(* The repository: the graphs, and the objects a tag reference can name.   *)
(***************************************************************************)
ParentLists(c) ==
    {<<>>} \cup {<<p>> : p \in 1..(c - 1)}
           \cup {<<p, q>> : <<p, q>> \in {pq \in (1..(c - 1)) \X (1..(c - 1)) : pq[1] # pq[2]}}

Graphs ==
    {g \in [Oids -> UNION {ParentLists(c) : c \in Oids}] :
        \A c \in Oids : g[c] \in ParentLists(c)}

AuthorNames == {"alice", "bob"}
AuthorOptions == {None} \cup {Some(n) : n \in AuthorNames}

Lines == {"x", "y"}
Trees == SUBSET Lines

\* kind: absent (no such reference), commit (lightweight tag), annotated (a tag
\* object that peels to commit target), annotated_tree (a tag object whose target
\* is a tree), tree and blob (the reference names a tree or a blob).
TagRefs ==
    {[kind |-> k, target |-> 0] : k \in {"absent", "annotated_tree", "tree", "blob"}}
    \cup {[kind |-> k, target |-> c] : k \in {"commit", "annotated"}, c \in Oids}

ParentsOf(c) == Range(parents[c])

\* commit.author().name().unwrap_or("Unknown")
AuthorName(c) == IF author[c] = None THEN "Unknown" ELSE author[c][1]

\* commit.parent(0).ok()
Parent0(c) == IF Len(parents[c]) >= 1 THEN Some(parents[c][1]) ELSE None

\* format_time: seconds + offset_minutes * 60; commit c was made at second c
\* with an offset of one minute.
format_time(c) == c + (1 * 60)

(***************************************************************************)
(* repo.rs: tag_exists and get_commit_from_tag.                            *)
(***************************************************************************)
\* repo.revparse_single("refs/tags/<name>"): Err for a missing reference, else
\* the object with its kind.
revparse_single(ref) ==
    IF ref.kind = "absent" THEN [ok |-> FALSE, kind |-> "none", ref |-> ref]
    ELSE [ok |-> TRUE,
          kind |-> CASE ref.kind = "commit" -> "Commit"
                     [] ref.kind \in {"annotated", "annotated_tree"} -> "Tag"
                     [] ref.kind = "tree" -> "Tree"
                     [] OTHER -> "Blob",
          ref |-> ref]

\* object.peel(ObjectType::Commit) of a tag object
peel_commit(object) ==
    IF object.ref.kind = "annotated" THEN Some(object.ref.target) ELSE None

get_commit_from_tag(ref) ==
    LET object == revparse_single(ref) IN
    IF object.ok
    THEN CASE object.kind = "Tag" -> peel_commit(object)
           [] object.kind = "Commit" -> Some(object.ref.target)
           [] OTHER -> None
    ELSE None

TagExistsIfResolves(ref) == get_commit_from_tag(ref) # None

tag_exists(ref) == revparse_single(ref).ok

(***************************************************************************)
(* The revwalk (git2::Revwalk): push, hide and the iterator.               *)
(***************************************************************************)
RECURSIVE AncestorClosure(_)
AncestorClosure(S) ==
    LET next == S \cup UNION {ParentsOf(c) : c \in S}
    IN IF next = S THEN S ELSE AncestorClosure(next)

\* revwalk.hide(c): c and everything reachable from it is uninteresting
Hide(c) == AncestorClosure({c})

EnqueueNoDedupe(pend, sn, hid, c) ==
    (pend \ {c}) \cup {p \in ParentsOf(c) : p \notin hid}

\* the iterator's step on commit c: c leaves the queue and its parents enter it,
\* unless already seen or hidden
Enqueue(pend, sn, hid, c) ==
    (pend \ {c}) \cup {p \in ParentsOf(c) : p \notin sn /\ p \notin hid}

\* One call of the iterator's next() that yields c.  The order among the queued
\* commits is by commit time, which is data of the repository: any queued commit
\* may be the most recent one.
RevwalkNext(c) ==
    /\ c \in pending
    /\ pending' = Enqueue(pending, seen, hidden, c)
    /\ seen' = seen \cup ParentsOf(c)
    /\ hidden' = hidden
    /\ walked' = Append(walked, c)

(***************************************************************************)
(* Diff statistics of two trees (git2 diff_tree_to_tree and stats).        *)
(***************************************************************************)
diff_tree_to_tree(old, new) ==
    LET o == IF old = None THEN {} ELSE old[1] IN
    [files_changed |-> IF o = new THEN 0 ELSE 1,
     insertions |-> Cardinality(new \ o),
     deletions |-> Cardinality(o \ new)]

(***************************************************************************)
(* analyzer.rs: analyze_repo.                                              *)
(***************************************************************************)
ZeroStats == [commits |-> 0, lines_added |-> 0, lines_deleted |-> 0]
EmptyMap == [a \in {} |-> ZeroStats]
NoIteration ==
    [oid |-> 0, author |-> "", result |-> "none", lines_added |-> 0, lines_deleted |-> 0]

\* What computing the statistics of one commit can do: succeed, fail in tree()
\* or diff_tree_to_tree (both unwrapped), or fail in diff.stats() (mapped, .ok()).
DiffResults == {"ok", "unwrap_err", "stats_err"}

DiffBaseLastParent(c) ==
    IF parents[c] = <<>> THEN None ELSE Some(tree[parents[c][Len(parents[c])]])

\* the old tree of the diff: the tree of parent(0), or None without a parent
DiffBase(c) ==
    IF Parent0(c) = None THEN None ELSE Some(tree[Parent0(c)[1]])

CommitDiff(c) == diff_tree_to_tree(DiffBase(c), tree[c])

AccumulateOverwrite(m, a, la, ld) ==
    [x \in DOMAIN m \cup {a} |->
        IF x = a THEN [commits |-> 1, lines_added |-> la, lines_deleted |-> ld]
        ELSE m[x]]

\* author_stats.entry(author).or_insert(zero), then the three +=
Accumulate(m, a, la, ld) ==
    LET entry == IF a \in DOMAIN m THEN m[a] ELSE ZeroStats IN
    [x \in DOMAIN m \cup {a} |->
        IF x = a
        THEN [commits |-> entry.commits + 1,
              lines_added |-> entry.lines_added + la,
              lines_deleted |-> entry.lines_deleted + ld]
        ELSE m[x]]

TotalAddedOnly(m) ==
    SumOver(DOMAIN m, [a \in DOMAIN m |-> m[a].lines_added])

\* author_stats.values().map(|s| s.lines_added + s.lines_deleted).sum()
TotalContributions(m) ==
    SumOver(DOMAIN m, [a \in DOMAIN m |-> m[a].lines_added + m[a].lines_deleted])

\* author_stats.into_iter().collect(): the entries in the order the HashMap
\* iterates them, which is any order of its keys.
HashMapOrders(m) ==
    {[i \in 1..Cardinality(DOMAIN m) |-> [author |-> k[i], stats |-> m[k[i]]]] :
        k \in {s \in [1..Cardinality(DOMAIN m) -> DOMAIN m] :
                  \A i, j \in 1..Cardinality(DOMAIN m) : i # j => s[i] # s[j]}}

\* one insertion of a stable sort by b.commits.cmp(a.commits): e goes after
\* every element whose count is not smaller
InsertByCommits(sorted, e) ==
    LET pos == Cardinality({i \in 1..Len(sorted) :
                               sorted[i].stats.commits >= e.stats.commits})
    IN SubSeq(sorted, 1, pos) \o <<e>> \o SubSeq(sorted, pos + 1, Len(sorted))

RECURSIVE sort_by_commits(_)
sort_by_commits(v) ==
    IF v = <<>> THEN <<>>
    ELSE InsertByCommits(sort_by_commits(SubSeq(v, 1, Len(v) - 1)), v[Len(v)])

\* the f64 contribution, kept as the exact fraction num / den
Contribution(stats, total) ==
    IF total > 0
    THEN [num |-> (stats.lines_added + stats.lines_deleted) * 100, den |-> total]
    ELSE [num |-> 0, den |-> 1]

TableRow(e, total) ==
    [author |-> e.author,
     commits |-> e.stats.commits,
     lines_added |-> e.stats.lines_added,
     lines_deleted |-> e.stats.lines_deleted,
     contribution |-> Contribution(e.stats, total)]

\* analyzer.rs 7-9: the empty map, the revwalk, push_head
AnalyzeStart ==
    /\ pc = "analyze"
    /\ author_stats' = EmptyMap
    /\ pending' = {head}
    /\ seen' = {head}
    /\ hidden' = {}
    /\ walked' = <<>>
    /\ pc' = "analyze_walk"
    /\ UNCHANGED <<repoVars, cur, total_contributions, table, changelogVars>>

\* analyzer.rs 11-37: one iteration of the loop.  The ids the walk yields are
\* commits the walk has itself read, so both if-let arms are taken.
AnalyzeVisit ==
    /\ pc = "analyze_walk"
    /\ \E c \in pending, res \in DiffResults :
        /\ RevwalkNext(c)
        /\ LET a == AuthorName(c)
               stats == CommitDiff(c)
               la == IF res = "ok" THEN stats.insertions ELSE 0
               ld == IF res = "ok" THEN stats.deletions ELSE 0
           IN IF res = "unwrap_err"
              THEN /\ pc' = "panicked"
                   /\ cur' = [oid |-> c, author |-> a, result |-> res,
                              lines_added |-> 0, lines_deleted |-> 0]
                   /\ author_stats' = author_stats
              ELSE /\ pc' = "analyze_walk"
                   /\ cur' = [oid |-> c, author |-> a, result |-> res,
                              lines_added |-> la, lines_deleted |-> ld]
                   /\ author_stats' = Accumulate(author_stats, a, la, ld)
    /\ UNCHANGED <<repoVars, total_contributions, table, changelogVars>>

\* analyzer.rs 39-62: the total, the sorted vector and the rows of the table
AnalyzeReport ==
    /\ pc = "analyze_walk"
    /\ pending = {}
    /\ \E collected \in HashMapOrders(author_stats) :
        LET total == TotalContributions(author_stats)
            stats_vec == sort_by_commits(collected)
        IN /\ total_contributions' = total
           /\ table' = [i \in 1..Len(stats_vec) |-> TableRow(stats_vec[i], total)]
    /\ pc' = "done"
    /\ UNCHANGED <<repoVars, walkVars, cur, author_stats, changelogVars>>

NextAnalyze == AnalyzeStart \/ AnalyzeVisit \/ AnalyzeReport

(***************************************************************************)
(* changelog.rs and main.rs: format_changelog.                             *)
(***************************************************************************)
\* The crate holds two copies of format_changelog: the one of changelog.rs
\* ("module") and the one inlined in main.rs ("inline").
Variants == {"module", "inline"}

\* the first condition of the if chain (changelog.rs 116, main.rs 286)
IsFeature(msg) ==
    IF variant = "module"
    THEN \/ starts_with(msg, PrefixMergedPR)
         \/ starts_with(msg, PrefixFeature)
         \/ starts_with(msg, PrefixTask)
    ELSE \/ starts_with(msg, PrefixFeat)
         \/ starts_with(msg, PrefixFeature)

\* the second condition of the if chain (changelog.rs 118, main.rs 288)
IsFix(msg) ==
    IF variant = "module"
    THEN starts_with(msg, PrefixFix) \/ starts_with(msg, PrefixBug)
    ELSE starts_with(msg, PrefixFix)

EmptyBuckets == [features |-> <<>>, fixes |-> <<>>, others |-> <<>>]

ClassifyOneNoElse(b, commit) ==
    LET f == IF IsFeature(commit.message)
             THEN [b EXCEPT !.features = Append(@, commit)] ELSE b
    IN IF IsFix(commit.message)
       THEN [f EXCEPT !.fixes = Append(@, commit)]
       ELSE [f EXCEPT !.others = Append(@, commit)]

ClassifyOnePrepend(b, commit) ==
    IF IsFeature(commit.message)
    THEN [b EXCEPT !.features = <<commit>> \o @]
    ELSE IF IsFix(commit.message)
         THEN [b EXCEPT !.fixes = <<commit>> \o @]
         ELSE [b EXCEPT !.others = <<commit>> \o @]

\* the body of the loop: if / else if / else, one push
ClassifyOne(b, commit) ==
    IF IsFeature(commit.message)
    THEN [b EXCEPT !.features = Append(@, commit)]
    ELSE IF IsFix(commit.message)
         THEN [b EXCEPT !.fixes = Append(@, commit)]
         ELSE [b EXCEPT !.others = Append(@, commit)]

\* for commit in commits { ... }
RECURSIVE Classify(_)
Classify(cs) ==
    IF cs = <<>> THEN EmptyBuckets
    ELSE ClassifyOne(Classify(SubSeq(cs, 1, Len(cs) - 1)), cs[Len(cs)])

\* &commit.hash[..7]; a hash is kept as the commit id
ShortId(hash) == hash

Entry(commit) ==
    [kind |-> "entry",
     title |-> first_line(commit.message),
     short_id |-> ShortId(commit.hash),
     author |-> commit.author,
     date |-> commit.date]

SectionAlways(heading, bucket) ==
    <<[kind |-> "heading", text |-> heading]>>
    \o [i \in 1..Len(bucket) |-> Entry(bucket[i])]

\* if !bucket.is_empty() { heading, one entry per commit }
Section(heading, bucket) ==
    IF bucket = <<>> THEN <<>>
    ELSE <<[kind |-> "heading", text |-> heading]>>
         \o [i \in 1..Len(bucket) |-> Entry(bucket[i])]

Title == "Changelog from <from_tag> to <to_tag>"

\* the returned String, as the sequence of its parts, with the three buckets
format_changelog(title, cs, files_changed, insertions, deletions) ==
    LET b == Classify(cs) IN
    [buckets |-> b,
     result |->
        <<[kind |-> "title", text |-> title],
          [kind |-> "statistics", files_changed |-> files_changed,
           insertions |-> insertions, deletions |-> deletions,
           total_commits |-> Len(cs)]>>
        \o Section("## New Features", b.features)
        \o Section("## Bug Fixes", b.fixes)
        \o Section("## Other Changes", b.others)]

\* changelog.rs 78 (main.rs 237): the call of format_changelog
FormatApply ==
    /\ pc = "format"
    /\ LET r == format_changelog(Title, commits, diffstat.files_changed,
                                 diffstat.insertions, diffstat.deletions)
       IN /\ buckets' = r.buckets
          /\ changelog' = Some(r.result)
    /\ pc' = "output"
    /\ UNCHANGED <<repoVars, walkVars, analyzeVars, from_commit_id, to_commit_id,
                   commits, diffstat, stdout, file>>

(***************************************************************************)
(* changelog.rs: generate_changelog.                                       *)
(***************************************************************************)
CommitInfo(c) ==
    [hash |-> c, author |-> AuthorName(c), date |-> format_time(c),
     message |-> message[c]]

WalkRangeSwapped(from_id, to_id) == [push |-> from_id, hide |-> to_id]

\* changelog.rs 44-45: revwalk.push(to_commit_id), revwalk.hide(from_commit_id)
WalkRange(from_id, to_id) == [push |-> to_id, hide |-> from_id]

Stop(text, tag) ==
    /\ stdout' = Append(stdout, [text |-> text, tag |-> tag])
    /\ pc' = "done"
    /\ UNCHANGED <<walkVars, from_commit_id, to_commit_id>>

\* changelog.rs 11-45: the four checks of the tags, then the revwalk with
\* push(to_commit_id) and hide(from_commit_id)
GenerateStart ==
    /\ pc = "changelog"
    /\ IF ~tag_exists(from_ref) THEN Stop("does not exist", "from_tag")
       ELSE IF ~tag_exists(to_ref) THEN Stop("does not exist", "to_tag")
       ELSE IF get_commit_from_tag(from_ref) = None
            THEN Stop("Cannot resolve", "from_tag")
       ELSE IF get_commit_from_tag(to_ref) = None
            THEN Stop("Cannot resolve", "to_tag")
       ELSE LET from_id == get_commit_from_tag(from_ref)[1]
                to_id == get_commit_from_tag(to_ref)[1]
            IN /\ from_commit_id' = Some(from_id)
               /\ to_commit_id' = Some(to_id)
               /\ stdout' = Append(stdout, [text |-> "Generating changelog", tag |-> ""])
               /\ hidden' = Hide(WalkRange(from_id, to_id).hide)
               /\ pending' = {WalkRange(from_id, to_id).push}
                                \ Hide(WalkRange(from_id, to_id).hide)
               /\ seen' = {WalkRange(from_id, to_id).push}
               /\ walked' = <<>>
               /\ pc' = "changelog_walk"
    /\ UNCHANGED <<repoVars, analyzeVars, commits, diffstat, buckets, changelog, file>>

\* changelog.rs 47-59: one iteration of the loop
GenerateWalk ==
    /\ pc = "changelog_walk"
    /\ \E c \in pending :
        /\ RevwalkNext(c)
        /\ commits' = Append(commits, CommitInfo(c))
    /\ pc' = pc
    /\ UNCHANGED <<repoVars, analyzeVars, from_commit_id, to_commit_id, diffstat,
                   buckets, changelog, stdout, file>>

\* changelog.rs 61-75: the diff of the two tagged trees; every step is an
\* expect, which panics on an error
GenerateDiff ==
    /\ pc = "changelog_walk"
    /\ pending = {}
    /\ \E ok \in BOOLEAN :
        IF ok
        THEN /\ diffstat' = diff_tree_to_tree(Some(tree[from_commit_id[1]]),
                                              tree[to_commit_id[1]])
             /\ pc' = "format"
        ELSE /\ diffstat' = diffstat
             /\ pc' = "panicked"
    /\ UNCHANGED <<repoVars, walkVars, analyzeVars, from_commit_id, to_commit_id,
                   commits, buckets, changelog, stdout, file>>

\* changelog.rs 81-92: write the file or print
GenerateOutput ==
    /\ pc = "output"
    /\ IF output = None
       THEN /\ stdout' = Append(stdout, [text |-> "changelog", tag |-> ""])
            /\ file' = file
       ELSE \E written \in BOOLEAN :
            IF written
            THEN /\ file' = changelog
                 /\ stdout' = Append(stdout, [text |-> "Changelog saved", tag |-> ""])
            ELSE /\ file' = file
                 /\ stdout' = Append(stdout, [text |-> "Failed to write", tag |-> ""])
    /\ pc' = "done"
    /\ UNCHANGED <<repoVars, walkVars, analyzeVars, from_commit_id, to_commit_id,
                   commits, diffstat, buckets, changelog>>

NextChangelog ==
    GenerateStart \/ GenerateWalk \/ GenerateDiff \/ FormatApply \/ GenerateOutput

(***************************************************************************)
(* Initial states and specifications.  Every specification starts a command *)
(* on a repository; they differ in which part of the repository ranges     *)
(* over all its values and which part is held at the values below.         *)
(***************************************************************************)
LinearHistory == [c \in Oids |-> IF c = 1 THEN <<>> ELSE <<c - 1>>]

CycledAuthors ==
    [c \in Oids |-> CASE c % 3 = 1 -> Some("alice")
                      [] c % 3 = 2 -> Some("bob")
                      [] OTHER -> None]

AlternatingAuthors == [c \in Oids |-> IF c % 2 = 1 THEN Some("alice") ELSE None]

CycledTrees == [c \in Oids |-> IF c % 2 = 1 THEN {"x"} ELSE {"x", "y"}]

CycledMessages ==
    [c \in Oids |-> CASE c % 3 = 1 -> MsgFeatureX
                      [] c % 3 = 2 -> MsgFixY
                      [] OTHER -> MsgChoreZ]

LightweightTag(c) == [kind |-> "commit", target |-> c]

ZeroDiff == [files_changed |-> 0, insertions |-> 0, deletions |-> 0]

Started(position) ==
    /\ pc = position
    /\ pending = {}
    /\ seen = {}
    /\ hidden = {}
    /\ walked = <<>>
    /\ cur = NoIteration
    /\ author_stats = EmptyMap
    /\ total_contributions = 0
    /\ table = <<>>
    /\ from_commit_id = None
    /\ to_commit_id = None
    /\ buckets = EmptyBuckets
    /\ changelog = None
    /\ stdout = <<>>
    /\ file = None

\* analyze_repo on every graph with every assignment of authors
InitAuthors ==
    /\ parents \in Graphs
    /\ author \in [Oids -> AuthorOptions]
    /\ tree = CycledTrees
    /\ message = CycledMessages
    /\ head = NumCommits
    /\ from_ref = LightweightTag(1)
    /\ to_ref = LightweightTag(NumCommits)
    /\ variant = "inline"
    /\ output = None
    /\ commits = <<>>
    /\ diffstat = ZeroDiff
    /\ Started("analyze")

\* analyze_repo on every graph with every assignment of trees
InitDiff ==
    /\ parents \in Graphs
    /\ author = AlternatingAuthors
    /\ tree \in [Oids -> Trees]
    /\ message = CycledMessages
    /\ head = NumCommits
    /\ from_ref = LightweightTag(1)
    /\ to_ref = LightweightTag(NumCommits)
    /\ variant = "inline"
    /\ output = None
    /\ commits = <<>>
    /\ diffstat = ZeroDiff
    /\ Started("analyze")

\* generate_changelog on every graph with every pair of tag references
InitChangelog ==
    /\ parents \in Graphs
    /\ author = CycledAuthors
    /\ tree = CycledTrees
    /\ message = CycledMessages
    /\ head = NumCommits
    /\ from_ref \in TagRefs
    /\ to_ref \in TagRefs
    /\ variant \in Variants
    /\ output \in {None, Some("CHANGELOG.md")}
    /\ commits = <<>>
    /\ diffstat = ZeroDiff
    /\ Started("changelog")

\* either command on every graph, the tags lightweight
InitWalk ==
    /\ parents \in Graphs
    /\ author = CycledAuthors
    /\ tree = CycledTrees
    /\ message = CycledMessages
    /\ head = NumCommits
    /\ from_ref \in {LightweightTag(c) : c \in Oids}
    /\ to_ref \in {LightweightTag(c) : c \in Oids}
    /\ variant = "inline"
    /\ output = None
    /\ commits = <<>>
    /\ diffstat = ZeroDiff
    /\ \/ Started("analyze")
       \/ Started("changelog")

CommitSequences ==
    UNION {{[i \in 1..n |-> [hash |-> i, author |-> "alice", date |-> format_time(i),
                             message |-> m[i]]] : m \in [1..n -> Messages]} :
           n \in 0..MaxLen}

\* format_changelog on every sequence of at most MaxLen commits
InitFormat ==
    /\ parents = LinearHistory
    /\ author = CycledAuthors
    /\ tree = CycledTrees
    /\ message = CycledMessages
    /\ head = NumCommits
    /\ from_ref = LightweightTag(1)
    /\ to_ref = LightweightTag(NumCommits)
    /\ variant \in Variants
    /\ output = None
    /\ commits \in CommitSequences
    /\ diffstat \in {ZeroDiff, [files_changed |-> 1, insertions |-> 2, deletions |-> 1]}
    /\ Started("format")

\* generate_changelog on every graph with every assignment of messages, the
\* tags lightweight
InitOrder ==
    /\ parents \in Graphs
    /\ author = CycledAuthors
    /\ tree = CycledTrees
    /\ message \in [Oids -> {MsgFeatureX, MsgFixY, MsgChoreZ}]
    /\ head = NumCommits
    /\ from_ref \in {LightweightTag(c) : c \in Oids}
    /\ to_ref \in {LightweightTag(c) : c \in Oids}
    /\ variant \in Variants
    /\ output = None
    /\ commits = <<>>
    /\ diffstat = ZeroDiff
    /\ Started("changelog")

NextFormat == FormatApply \/ GenerateOutput

Next == NextAnalyze \/ NextChangelog

Spec == InitWalk /\ [][Next]_vars
SpecAuthors == InitAuthors /\ [][NextAnalyze]_vars
SpecDiff == InitDiff /\ [][NextAnalyze]_vars
SpecChangelog == InitChangelog /\ [][NextChangelog]_vars
SpecFormat == InitFormat /\ [][NextFormat]_vars
SpecOrder == InitOrder /\ [][NextChangelog]_vars

(***************************************************************************)
(* Properties.                                                             *)
(***************************************************************************)
CountIn(s, x) == Cardinality({i \in 1..Len(s) : s[i] = x})

\* a is b or an ancestor of b: a path of parent links leads from b to a
RECURSIVE Reaches(_, _)
Reaches(b, a) == b = a \/ \E p \in ParentsOf(b) : Reaches(p, a)

Formatted == pc \in {"output", "done"} /\ changelog # None

\* the bucket the documented precedence gives a message
DocumentedBucket(msg) ==
    IF \/ starts_with(msg, PrefixFeat)
       \/ starts_with(msg, PrefixFeature)
       \/ starts_with(msg, PrefixMergedPR)
       \/ starts_with(msg, PrefixTask)
    THEN "features"
    ELSE IF starts_with(msg, PrefixFix) \/ starts_with(msg, PrefixBug)
         THEN "fixes"
         ELSE "others"

\* C1: every commit given to format_changelog is in the bucket the documented
\* precedence names: feat, feature, Merged PR, task -> features; else fix, bug
\* -> fixes; else others.
C1_DocumentedPrecedence ==
    Formatted =>
        \A i \in 1..Len(commits) :
            commits[i] \in Range(buckets[DocumentedBucket(commits[i].message)])

\* C2: the three buckets partition the commits given to format_changelog: every
\* commit is in exactly one bucket, exactly once, every bucket entry is one of
\* the commits, and the reported total is the sum of the three bucket sizes.
C2_BucketsPartition ==
    Formatted =>
        /\ \A i \in 1..Len(commits) :
              CountIn(buckets.features, commits[i]) + CountIn(buckets.fixes, commits[i])
                + CountIn(buckets.others, commits[i]) = 1
        /\ Range(buckets.features) \cup Range(buckets.fixes) \cup Range(buckets.others)
              \subseteq Range(commits)
        /\ changelog[1][2].total_commits
              = Len(buckets.features) + Len(buckets.fixes) + Len(buckets.others)
        /\ changelog[1][2].total_commits = Len(commits)

C2_Witness ==
    /\ Formatted
    /\ buckets.features # <<>>
    /\ buckets.fixes # <<>>
    /\ buckets.others # <<>>

\* C3: the commits generate_changelog collects are reachable from the to_tag
\* commit and none of them is the from_tag commit or an ancestor of it; when
\* both tags resolve to the same commit nothing is collected.
C3_RangeExcludesBoundary ==
    (from_commit_id # None /\ to_commit_id # None) =>
        /\ \A i \in 1..Len(commits) :
              /\ Reaches(to_commit_id[1], commits[i].hash)
              /\ ~Reaches(from_commit_id[1], commits[i].hash)
        /\ from_commit_id = to_commit_id => commits = <<>>

\* the walk is over, it collected a merge one of whose parents is an ancestor
\* of the from_tag commit other than that commit itself
C3_Witness ==
    /\ pc = "format"
    /\ from_commit_id # None
    /\ \E i \in 1..Len(commits), a \in Oids :
          /\ a # from_commit_id[1]
          /\ Reaches(from_commit_id[1], a)
          /\ a \in ParentsOf(commits[i].hash)
          /\ from_commit_id[1] \in ParentsOf(commits[i].hash)

ReachableFromHead == {c \in Oids : Reaches(head, c)}

\* C4: when analyze_repo has consumed the whole traversal, the map holds the
\* authors of the commits reachable from HEAD (a missing name as "Unknown"),
\* each with the number of those commits that are theirs, and the counts add up
\* to the number of commits reachable from HEAD.
C4_CommitCounts ==
    pc = "done" =>
        /\ DOMAIN author_stats = {AuthorName(c) : c \in ReachableFromHead}
        /\ \A a \in DOMAIN author_stats :
              author_stats[a].commits
                = Cardinality({c \in ReachableFromHead : AuthorName(c) = a})
        /\ SumOver(DOMAIN author_stats,
                   [a \in DOMAIN author_stats |-> author_stats[a].commits])
              = Cardinality(ReachableFromHead)

\* a finished run over a merge, with a nameless commit and an author of two
C4_Witness ==
    /\ pc = "done"
    /\ "Unknown" \in DOMAIN author_stats
    /\ \E a \in DOMAIN author_stats : author_stats[a].commits >= 2
    /\ \E c \in ReachableFromHead : Len(parents[c]) = 2

\* the commits a finished walk has to yield: for analyze_repo those reachable
\* from HEAD, for generate_changelog those reachable from to and not from from
Expected ==
    IF to_commit_id = None THEN ReachableFromHead
    ELSE {c \in Oids : Reaches(to_commit_id[1], c) /\ ~Reaches(from_commit_id[1], c)}

WalkOver == pc \in {"analyze_walk", "changelog_walk", "format", "output", "done"} /\ pending = {}

Walking == pc \in {"analyze_walk", "changelog_walk"}

\* C5: the walk ends and yields every commit once.  It ends because a command
\* that has not finished can always take a step (the report's step is enabled
\* by its guard: a map always has an order), every step of the loop yields
\* one more commit or leaves the loop, and no commit is ever yielded twice, so
\* the loop takes at most as many steps as there are commits; when it is over
\* it has yielded every reachable commit that is not excluded exactly once, and
\* analyze_repo has counted as many commits as that.
C5_WalkTerminatesExactlyOnce ==
    /\ [](\/ pc \in {"done", "panicked"}
          \/ ENABLED (AnalyzeStart \/ AnalyzeVisit \/ NextChangelog)
          \/ (pc = "analyze_walk" /\ pending = {}))
    /\ [][Walking => (Len(walked') = Len(walked) + 1 \/ ~Walking')]_vars
    /\ [](\A c \in Oids : CountIn(walked, c) <= 1)
    /\ [](WalkOver => \A c \in Oids : CountIn(walked, c) = IF c \in Expected THEN 1 ELSE 0)
    /\ []((pc = "done" /\ to_commit_id = None) =>
            SumOver(DOMAIN author_stats,
                    [a \in DOMAIN author_stats |-> author_stats[a].commits])
              = Cardinality(Expected))

\* a finished walk that yielded a commit which is a parent of two yielded commits
C5_Witness ==
    /\ pc = "done"
    /\ \E c \in Range(walked) :
          Cardinality({d \in Range(walked) : c \in ParentsOf(d)}) >= 2

\* the place of an author's first commit in the traversal
FirstSeen(a) ==
    CHOOSE i \in 1..Len(walked) :
        /\ AuthorName(walked[i]) = a
        /\ \A j \in 1..(i - 1) : AuthorName(walked[j]) # a

\* C6: the rows of the table are in descending order of commits, and two
\* authors with the same count are in the order they were first seen.
C6_TableOrder ==
    pc = "done" =>
        \A i, j \in 1..Len(table) :
            i < j =>
                /\ table[i].commits >= table[j].commits
                /\ table[i].commits = table[j].commits
                      => FirstSeen(table[i].author) < FirstSeen(table[j].author)

RowLines(i) == table[i].lines_added + table[i].lines_deleted

\* C7: at report time total_contributions is the sum over the authors of
\* lines_added + lines_deleted; with a total above zero every percentage is the
\* author's lines over the total times 100 and the percentages add up to 100;
\* with a total of zero every percentage is 0.
C7_Percentages ==
    pc = "done" =>
        LET rows == 1..Len(table) IN
        /\ total_contributions = SumOver(rows, [i \in rows |-> RowLines(i)])
        /\ total_contributions > 0 =>
              /\ \A i \in rows :
                    /\ table[i].contribution.den = total_contributions
                    /\ table[i].contribution.num = RowLines(i) * 100
              /\ SumOver(rows, [i \in rows |-> table[i].contribution.num])
                    = 100 * total_contributions
        /\ total_contributions = 0 =>
              \A i \in rows : table[i].contribution.num = 0

\* a report with two authors who both have lines
C7_Witness ==
    /\ pc = "done"
    /\ Len(table) >= 2
    /\ \A i \in 1..Len(table) : table[i].contribution.num > 0
    /\ \E i, j \in 1..Len(table) : table[i].contribution.num # table[j].contribution.num

StatsOf(m, a) == IF a \in DOMAIN m THEN m[a] ELSE ZeroStats

\* the tree a commit is compared with: that of its first parent, or no line
FirstParentLines(c) == IF parents[c] = <<>> THEN {} ELSE tree[Head(parents[c])]

\* C8: an iteration that computes the statistics of commit c adds to c's
\* author the lines c's tree has and its first parent's tree has not, and
\* deletes those the first parent's tree has and c's has not; a commit without
\* parent adds all its lines and deletes none; no other author changes.
C8_FirstParentDiff ==
    [][(Walking /\ walked' # walked /\ cur'.result = "ok") =>
          LET c == cur'.oid
              a == cur'.author
          IN /\ c = walked'[Len(walked')]
             /\ a = AuthorName(c)
             /\ author_stats'[a].lines_added
                   = StatsOf(author_stats, a).lines_added
                     + Cardinality(tree[c] \ FirstParentLines(c))
             /\ author_stats'[a].lines_deleted
                   = StatsOf(author_stats, a).lines_deleted
                     + Cardinality(FirstParentLines(c) \ tree[c])
             /\ parents[c] = <<>> =>
                   /\ cur'.lines_added = Cardinality(tree[c])
                   /\ cur'.lines_deleted = 0
             /\ \A b \in DOMAIN author_stats \ {a} : author_stats'[b] = author_stats[b]
      ]_vars

\* the statistics of a merge were computed, and its two parents differ from it
\* in different ways
C8_Witness ==
    /\ cur.result = "ok"
    /\ cur.oid \in Oids
    /\ Len(parents[cur.oid]) = 2
    /\ tree[parents[cur.oid][1]] # tree[parents[cur.oid][2]]
    /\ cur.lines_added > 0
    /\ tree[cur.oid] \subseteq tree[parents[cur.oid][2]]

TagOutcome(ref) ==
    CASE ref.kind = "absent" -> "absent"
      [] ref.kind \in {"commit", "annotated"} -> "resolved"
      [] OTHER -> "unresolvable"

RefOf(tag) == IF tag = "from_tag" THEN from_ref ELSE to_ref

\* C9: once the tags are handled, either both are resolved (a lightweight tag
\* to the commit it names, an annotated tag to the commit it peels to), or
\* one message was printed, "does not exist" for a tag that is absent or "Cannot
\* resolve" for a tag that is present and does not resolve, and generation has
\* stopped: nothing walked, no changelog formatted, printed or written.
C9_TagOutcomes ==
    pc # "changelog" =>
        IF TagOutcome(from_ref) = "resolved" /\ TagOutcome(to_ref) = "resolved"
        THEN /\ from_commit_id = Some(from_ref.target)
             /\ to_commit_id = Some(to_ref.target)
             /\ stdout[1].text = "Generating changelog"
        ELSE /\ pc = "done"
             /\ Len(stdout) = 1
             /\ \/ /\ stdout[1].text = "does not exist"
                   /\ TagOutcome(RefOf(stdout[1].tag)) = "absent"
                \/ /\ stdout[1].text = "Cannot resolve"
                   /\ TagOutcome(RefOf(stdout[1].tag)) = "unresolvable"
             /\ stdout[1].tag \in {"from_tag", "to_tag"}
             /\ walked = <<>> /\ pending = {} /\ commits = <<>>
             /\ changelog = None /\ file = None

\* an annotated from_tag that resolves and a to_tag that names a tag object
\* which does not peel to a commit
C9_Witness ==
    /\ pc = "done"
    /\ from_ref.kind = "annotated"
    /\ to_ref.kind = "annotated_tree"
    /\ stdout = <<[text |-> "Cannot resolve", tag |-> "to_tag"]>>

\* C10: a commit whose diff statistics could not be computed is still counted
\* for its author, with no line added or deleted, and the run goes on.
C10_DiffFailureAbsorbed ==
    cur.result \in {"unwrap_err", "stats_err"} =>
        /\ pc # "panicked"
        /\ cur.lines_added = 0
        /\ cur.lines_deleted = 0
        /\ cur.author \in DOMAIN author_stats
        /\ author_stats[cur.author].commits >= 1

Rendered == changelog[1]

HeadingCount(text) ==
    Cardinality({i \in 1..Len(Rendered) :
                    Rendered[i].kind = "heading" /\ Rendered[i].text = text})

\* C11: the returned changelog starts with the title and the statistics; it
\* holds the heading of a section once if the section's bucket is not empty and
\* not at all if it is empty, and no other heading; for no commit at all it is
\* the title and the statistics with a total of 0 commits, and nothing else.
C11_HeadingIffBucketNonEmpty ==
    Formatted =>
        /\ Rendered[1].kind = "title"
        /\ Rendered[2].kind = "statistics"
        /\ HeadingCount("## New Features") = IF buckets.features # <<>> THEN 1 ELSE 0
        /\ HeadingCount("## Bug Fixes") = IF buckets.fixes # <<>> THEN 1 ELSE 0
        /\ HeadingCount("## Other Changes") = IF buckets.others # <<>> THEN 1 ELSE 0
        /\ \A i \in 1..Len(Rendered) :
              Rendered[i].kind = "heading" =>
                  Rendered[i].text \in {"## New Features", "## Bug Fixes", "## Other Changes"}
        /\ commits = <<>> =>
              /\ Len(Rendered) = 2
              /\ Rendered[2].total_commits = 0

\* a changelog of some commits with one section present and another left out
C11_Witness ==
    /\ Formatted
    /\ buckets.features # <<>>
    /\ buckets.fixes = <<>>
    /\ HeadingCount("## New Features") = 1
    /\ HeadingCount("## Bug Fixes") = 0

\* the position of a commit in the order the revwalk produced
WalkPos(c) == CHOOSE k \in 1..Len(walked) : walked[k] = c

\* the heading an entry of the changelog stands under
HeadingOf(i) ==
    LET k == CHOOSE h \in 1..(i - 1) :
                 /\ Rendered[h].kind = "heading"
                 /\ \A m \in (h + 1)..(i - 1) : Rendered[m].kind # "heading"
    IN  Rendered[k].text

SectionRank(text) ==
    CASE text = "## New Features" -> 1
      [] text = "## Bug Fixes" -> 2
      [] text = "## Other Changes" -> 3

WalkOrdered(bucket) ==
    \A i, j \in 1..Len(bucket) :
        i < j => WalkPos(bucket[i].hash) < WalkPos(bucket[j].hash)

\* C12: the commits are collected in the order the revwalk produced them; in
\* each bucket, and under each heading of the changelog, of two commits the one
\* walked first stands first; the headings stand in the order New Features,
\* Bug Fixes, Other Changes.
C12_TraversalOrderKept ==
    Formatted =>
        /\ Len(commits) = Len(walked)
        /\ \A k \in 1..Len(commits) : commits[k].hash = walked[k]
        /\ WalkOrdered(buckets.features)
        /\ WalkOrdered(buckets.fixes)
        /\ WalkOrdered(buckets.others)
        /\ \A i, j \in 3..Len(Rendered) :
              /\ i < j
              /\ Rendered[i].kind = "entry"
              /\ Rendered[j].kind = "entry"
              /\ HeadingOf(i) = HeadingOf(j)
              => WalkPos(Rendered[i].short_id) < WalkPos(Rendered[j].short_id)
        /\ \A i, j \in 3..Len(Rendered) :
              /\ i < j
              /\ Rendered[i].kind = "heading"
              /\ Rendered[j].kind = "heading"
              => SectionRank(Rendered[i].text) < SectionRank(Rendered[j].text)

\* a changelog with two commits under one heading
C12_Witness ==
    /\ Formatted
    /\ Len(walked) >= 2
    /\ \E i, j \in 3..Len(Rendered) :
          /\ i < j
          /\ Rendered[i].kind = "entry"
          /\ Rendered[j].kind = "entry"
          /\ HeadingOf(i) = HeadingOf(j)
          /\ WalkPos(Rendered[i].short_id) < WalkPos(Rendered[j].short_id)

====
